---- MODULE Spec2Model ----
(***************************************************************************)
(* Alert lifecycle of the ocean-hazard platform: src/backend/              *)
(* alert_service.py (AlertService), src/backend/incois_integration.py      *)
(* (INCOISIntegration) and the endpoints of src/backend/main.py that write *)
(* the tables they read; and the ingestion of social-media posts and the   *)
(* text analysis of src/nlp-engine/main.py and processors.py, a service    *)
(* with its own tables.                                                    *)
(*                                                                         *)
(* The database is the shared state.  Every handler runs in its own        *)
(* session; one step of the model is one database transaction (the         *)
(* statements up to a commit) or one pass over the notification channels,  *)
(* so handlers of different workers interleave between commits.            *)
(* Time is counted in ticks of 1/TicksPerHour hour.                        *)
(***************************************************************************)
EXTENDS Integers, Sequences, FiniteSets, Bags, TLC

\* ---------------------------------------------------------------- bounds
TicksPerHour == 2
MaxEarly == 2
MaxAlerts == 2
MaxUsers == 1
MaxTasks == 1
MaxFeed == 2
\* the concurrent workers of SpecRace and the users of SpecFanout
MaxRaceTasks == 2
MaxFanoutUsers == 2
\* the rows of hazard_reports in SpecVerify
MaxReports == 1

\* ------------------------------------------------------ program constants
SuppressionHours == 1
AlertTTLHours == 24
Window == SuppressionHours * TicksPerHour
TTL == AlertTTLHours * TicksPerHour

\* The instants the clock visits: the first ticks, then the expiry of an
\* alert created at tick 0 and the tick after it.
TimePoints == (0..MaxEarly) \cup {TTL, TTL + 1}

AlertTypes == {"tsunami", "high_waves"}
SeverityLevel == {"low", "medium", "high", "critical"}
None == 0

\* ------------------------------------------------------- name resolution
\* The names bound at module level in alert_service.py (imports, the class
\* and the two background tasks).  A function body that reads any other
\* global raises NameError when the read is executed.
AlertServiceGlobals ==
    {"asyncio", "json", "datetime", "timedelta", "List", "Dict", "Any",
     "Optional", "Session", "text", "redis", "Client", "smtplib", "MIMEText",
     "MIMEMultipart", "get_db", "Alert", "User", "HazardReport", "UserAlert",
     "AlertResponse", "AlertService", "periodic_alert_cleanup",
     "process_report_alerts"}

\* The names bound at module level in incois_integration.py.
IncoisGlobals ==
    {"httpx", "asyncio", "datetime", "timedelta", "List", "Dict", "Any",
     "Optional", "Session", "text", "json", "os", "load_dotenv", "get_db",
     "Alert", "User", "HazardReport", "AlertResponse", "INCOISIntegration",
     "AlertProcessor", "periodic_incois_sync", "get_incois_alerts",
     "trigger_incois_sync", "get_alert_summary"}

\* The locals of generate_alert_from_report: its parameters and the names it
\* assigns.
GenerateLocals == {"self", "report", "existing_alert", "template", "alert", "e"}

\* The columns of the users table: the attributes a User object has.
UserColumns ==
    {"id", "username", "email", "password_hash", "role", "language",
     "created_at", "updated_at", "hazard_reports", "verified_reports"}

\* ------------------------------------------------------------------ state
VARIABLES
    now,          \* datetime.utcnow(), in ticks
    users,        \* ids of the rows of table users
    alerts,       \* table alerts: a sequence, the row's id is its index
    user_alerts,  \* table user_alerts: a sequence of rows
    tasks,        \* the handlers in flight, one record per worker slot
    dispatched,   \* bag of <<alert id, user id>>: dispatcher invocations
    attempts,     \* set of <<alert id, user id, channel>> tried
    published,    \* alert ids handed to redis publish('new_alert', ...)
    posts,        \* nlp-engine, table social_media_posts: a sequence of rows
    new_social_post,  \* bag of the payloads published on 'new_social_post'
    jobs,         \* nlp-engine: the handlers in flight, one per worker slot
    reports,      \* table hazard_reports: a sequence, the row's id is its index
    cleanup_sleep \* seconds of the asyncio.sleep periodic_alert_cleanup is in

vars == <<now, users, alerts, user_alerts, tasks, dispatched, attempts, published,
          posts, new_social_post, jobs, reports, cleanup_sleep>>

\* The table written by the report endpoints of main.py and the position of
\* the background loop of alert_service.py.
service_vars == <<reports, cleanup_sleep>>

\* The state of the nlp-engine service (src/nlp-engine/main.py).
nlp_vars == <<posts, new_social_post, jobs>>

\* The state of the backend service.
backend_vars ==
    <<now, users, alerts, user_alerts, tasks, dispatched, attempts, published>>

Tasks == DOMAIN tasks

IdleTask ==
    [kind |-> "none", pc |-> "idle", atype |-> "", title |-> "", sev |-> "",
     src |-> "", aid |-> 0, res |-> None, raised |-> FALSE, ulist |-> {},
     failed |-> <<>>, items |-> <<>>, errors |-> {}, out |-> <<>>,
     verified |-> FALSE, rid |-> 0, hotspots |-> FALSE]

DoneTask(kind, aid, res, raised) ==
    [IdleTask EXCEPT !.kind = kind, !.pc = "done", !.aid = aid, !.res = res,
                     !.raised = raised]

AlertIds == 1..Len(alerts)

\* A worker of the nlp-engine: the batch being processed (its head is the
\* post in process_single_post), what became of the posts before it, and the
\* response of analyze_text.
IdleJob ==
    [kind |-> "none", pc |-> "idle", items |-> <<>>, log |-> <<>>,
     raised |-> FALSE, out |-> <<>>]

Jobs == DOMAIN jobs

\* A new handler takes the lowest free worker slot (the slots are alike).
FreeSlot(t) ==
    /\ tasks[t].pc = "idle"
    /\ \A s \in Tasks : s < t => tasks[s].pc # "idle"

InitWith(workers) ==
    /\ now = 0
    /\ users = {}
    /\ alerts = <<>>
    /\ user_alerts = <<>>
    /\ tasks = [t \in 1..workers |-> IdleTask]
    /\ dispatched = EmptyBag
    /\ attempts = {}
    /\ published = {}
    /\ posts = <<>>
    /\ new_social_post = EmptyBag
    /\ jobs = [t \in 1..workers |-> IdleJob]
    /\ reports = <<>>
    /\ cleanup_sleep = 0

Init == InitWith(MaxTasks)
InitRace == InitWith(MaxRaceTasks)

\* ------------------------------------------------------------------ clock
\* A handler runs for seconds and a tick is a good part of an hour: the clock
\* is taken to tick between handlers, not inside one.
Advance ==
    /\ \A t \in Tasks : tasks[t].pc = "idle"
    /\ \E t \in TimePoints : t > now /\ now' = t
    /\ UNCHANGED <<users, alerts, user_alerts, tasks, dispatched, attempts, published>>
    /\ UNCHANGED nlp_vars
    /\ UNCHANGED service_vars

\* --------------------------------------------------------- main.py: users
register_user(limit) ==
    /\ Cardinality(users) < limit
    /\ users' = users \cup {Cardinality(users) + 1}
    /\ UNCHANGED <<now, alerts, user_alerts, tasks, dispatched, attempts, published>>
    /\ UNCHANGED nlp_vars
    /\ UNCHANGED service_vars


\* ------------------------------------------------------ alert_service.py
\* alert_templates[hazard_type]['title'], with the default of .get().  The
\* default title is derived from the type; it is only ever compared together
\* with the type, so one string stands for it.
alert_templates(hazard_type) ==
    CASE hazard_type = "tsunami" -> "Tsunami Alert"
      [] hazard_type = "storm_surge" -> "Storm Surge Warning"
      [] hazard_type = "high_waves" -> "High Wave Warning"
      [] hazard_type = "flooding" -> "Coastal Flooding Alert"
      [] OTHER -> "Default Alert"

\* Alert(...) as built by create_alert: both utcnow() calls fall in one tick.
NewAlert(alert_type, title, severity, source) ==
    [id |-> Len(alerts) + 1, alert_type |-> alert_type, title |-> title,
     severity |-> severity, source |-> source, is_active |-> TRUE,
     created_at |-> now, expires_at |-> now + TTL]

\* Variant: the session is in scope (say, created as in create_alert).
generate_db_in_scope == TRUE

\* Whether the read of `db` in generate_alert_from_report finds a binding.
generate_db_bound == "db" \in (GenerateLocals \cup AlertServiceGlobals)

\* The rows the query of generate_alert_from_report matches.
existing_alert_query(hazard_type) ==
    {i \in AlertIds : /\ alerts[i].alert_type = hazard_type
                      /\ alerts[i].is_active
                      /\ alerts[i].created_at >= now - Window}

\* HazardReport rows: the columns the alert service reads.
Reports ==
    [hazard_type : AlertTypes, severity : SeverityLevel, is_verified : BOOLEAN,
     created_at : TimePoints]

\* The worker after generate_alert_from_report has returned res for report.
GenDone(report, res) ==
    [DoneTask("gen", 0, res, FALSE) EXCEPT !.atype = report.hazard_type,
                                          !.sev = report.severity,
                                          !.verified = report.is_verified]

generate_alert_from_report(t, report) ==
    /\ FreeSlot(t)
    /\ \E m \in existing_alert_query(report.hazard_type) \cup {None} :
         /\ (existing_alert_query(report.hazard_type) # {}) => (m # None)
         /\ tasks' = [tasks EXCEPT ![t] =
              IF report.severity \notin {"high", "critical"}
                THEN GenDone(report, None)
              ELSE IF ~generate_db_bound
                THEN GenDone(report, None)             \* NameError, caught
              ELSE IF m # None
                THEN GenDone(report, m)                \* .first() of the matches
              ELSE [IdleTask EXCEPT !.kind = "gen", !.pc = "gen_create",
                                    !.atype = report.hazard_type,
                                    !.title = alert_templates(report.hazard_type),
                                    !.sev = report.severity,
                                    !.verified = report.is_verified,
                                    !.src = "crowdsourced"]]
    /\ UNCHANGED <<now, users, alerts, user_alerts, dispatched, attempts, published>>
    /\ UNCHANGED nlp_vars
    /\ UNCHANGED service_vars

\* Variant: the scan without the is_verified filter.
recent_reports_any(table) ==
    {r \in table : /\ r.severity \in {"high", "critical"}
                   /\ r.created_at >= now - Window}

\* The rows the scan of process_report_alerts selects from hazard_reports.
recent_reports(table) ==
    {r \in table : /\ r.severity \in {"high", "critical"}
                   /\ r.created_at >= now - Window
                   /\ r.is_verified = TRUE}

\* One iteration of the loop of process_report_alerts over the rows its
\* scan selects; the table holds any reports created so far.
process_report_alerts(t, report) ==
    /\ report \in recent_reports({r \in Reports : r.created_at <= now})
    /\ generate_alert_from_report(t, report)

\* The arguments of a direct call of create_alert.  Title is read only by
\* the feed's duplicate check, which looks at source 'incois' alone.
CreateArgs ==
    [atype : AlertTypes, sev : {"high"}, src : {"crowdsourced"}]

\* create_alert up to db.refresh(alert): called directly (worker idle) or
\* from generate_alert_from_report (worker at gen_create).  ok = FALSE is an
\* exception of the commit: rollback and re-raise; generate_alert_from_report
\* catches it and returns None.
create_alert(t, ok) ==
    /\ FreeSlot(t) \/ tasks[t].pc = "gen_create"
    /\ Len(alerts) < MaxAlerts
    /\ \E args \in CreateArgs :
         LET via == IF tasks[t].pc = "gen_create" THEN "gen" ELSE "create"
             a == IF tasks[t].pc = "gen_create"
                    THEN NewAlert(tasks[t].atype, tasks[t].title, tasks[t].sev, tasks[t].src)
                    ELSE NewAlert(args.atype, alert_templates(args.atype), args.sev, args.src)
         IN IF ok
              THEN /\ alerts' = Append(alerts, a)
                   /\ tasks' = [tasks EXCEPT ![t] =
                        [IdleTask EXCEPT !.kind = via, !.pc = "notify", !.aid = a.id]]
              ELSE /\ alerts' = alerts
                   /\ tasks' = [tasks EXCEPT ![t] = DoneTask(via, 0, None, via = "create")]
    /\ UNCHANGED <<now, users, user_alerts, dispatched, attempts, published>>
    /\ UNCHANGED nlp_vars
    /\ UNCHANGED service_vars

\* The users in ascending id order.
SortedSeq(S) ==
    CHOOSE s \in [1..Cardinality(S) -> S] :
        \A i, j \in 1..Cardinality(S) : i < j => s[i] < s[j]

\* Variant: the fanout adds no rows.
FanoutRows_none(aid, us) == <<>>

\* Variant: the fanout adds every row twice.
FanoutRows_twice(aid, us) ==
    [i \in 1..(2 * Cardinality(us)) |->
        [user_id |-> SortedSeq(us)[((i - 1) % Cardinality(us)) + 1],
         alert_id |-> aid, is_read |-> FALSE]]

\* The UserAlert rows one fanout adds.
FanoutRows(aid, us) ==
    [i \in 1..Cardinality(us) |->
        [user_id |-> SortedSeq(us)[i], alert_id |-> aid, is_read |-> FALSE]]

\* _notify_users up to its commit; ok = FALSE is an exception of the query
\* or the commit.  Every exception is caught and printed.
notify_users(t, ok) ==
    /\ tasks[t].pc = "notify"
    /\ IF ok /\ (users = {} \/ "UserAlert" \in AlertServiceGlobals)
         THEN /\ user_alerts' = user_alerts \o FanoutRows(tasks[t].aid, users)
              /\ tasks' = [tasks EXCEPT ![t].pc = "send", ![t].ulist = users]
         ELSE /\ user_alerts' = user_alerts
              /\ tasks' = [tasks EXCEPT ![t].pc = "publish",
                                        ![t].errors = @ \cup {"fanout"}]
    /\ UNCHANGED <<now, users, alerts, dispatched, attempts, published>>
    /\ UNCHANGED nlp_vars
    /\ UNCHANGED service_vars

Channels == {"email", "sms", "push"}

\* Whether a channel call raises to _send_notifications when the channel
\* fails: each wraps its whole body in try/except and prints.
send_email_unguarded(fails) == fails   \* variant: without the try/except
send_email_notification(fails) == FALSE
send_sms_notification(fails) == FALSE
send_push_notification(fails) == FALSE

\* hasattr(user, 'phone_number') and user.phone_number
user_has_phone == "phone_number" \in UserColumns

\* The channels one iteration of the loop of _send_notifications tries for
\* a user, given the channels that fail for that user.
ChannelsTried(failing) ==
    LET emailRaised == send_email_notification("email" \in failing)
        smsTried == ~emailRaised /\ user_has_phone
        smsRaised == smsTried /\ send_sms_notification("sms" \in failing)
        pushTried == ~emailRaised /\ ~smsRaised
    IN {"email"} \cup (IF smsTried THEN {"sms"} ELSE {})
                 \cup (IF pushTried THEN {"push"} ELSE {})

send_notifications(t, fails) ==
    /\ tasks[t].pc = "send"
    /\ fails \in [tasks[t].ulist -> SUBSET Channels]
    /\ attempts' = attempts \cup
          UNION {{<<tasks[t].aid, u, c>> : c \in ChannelsTried(fails[u])} :
                 u \in tasks[t].ulist}
    /\ dispatched' = dispatched (+) SetToBag({<<tasks[t].aid, u>> : u \in tasks[t].ulist})
    /\ tasks' = [tasks EXCEPT ![t].pc = "publish", ![t].ulist = {},
                              ![t].failed = [u \in tasks[t].ulist |->
                                               fails[u] \cap ChannelsTried(fails[u])],
                              ![t].errors = @ \cup
                                  {"channel" : u \in {v \in tasks[t].ulist :
                                      fails[v] \cap ChannelsTried(fails[v]) # {}}}]
    /\ UNCHANGED <<now, users, alerts, user_alerts, published>>
    /\ UNCHANGED nlp_vars
    /\ UNCHANGED service_vars

\* Variant: _publish_alert without its try/except.
publish_alert_uncaught(ok) == ~ok

\* Whether _publish_alert raises to create_alert when the publish call
\* fails: the body is wrapped in try/except and the exception printed.
publish_alert_raises(ok) == FALSE

\* _publish_alert and the return of create_alert; ok = FALSE is an exception
\* of the publish call (the event is lost).  An exception that reached
\* create_alert would be rolled back and re-raised (the alert is committed
\* by then); generate_alert_from_report would catch it and return None.
publish_alert(t, ok) ==
    /\ tasks[t].pc = "publish"
    /\ published' = published \cup {tasks[t].aid}
    /\ tasks' = [tasks EXCEPT ![t] =
         IF publish_alert_raises(ok)
           THEN [DoneTask(tasks[t].kind, tasks[t].aid, None, tasks[t].kind = "create")
                   EXCEPT !.errors = tasks[t].errors \cup {"publish"}]
           ELSE [DoneTask(tasks[t].kind, tasks[t].aid, tasks[t].aid, FALSE)
                   EXCEPT !.errors = tasks[t].errors \cup
                                       (IF ok THEN {} ELSE {"publish"})]]
    /\ UNCHANGED <<now, users, alerts, user_alerts, dispatched, attempts>>
    /\ UNCHANGED nlp_vars
    /\ UNCHANGED service_vars

\* The caller takes the result; the worker slot is free again.
Return(t) ==
    /\ tasks[t].pc = "done"
    /\ tasks' = [tasks EXCEPT ![t] = IdleTask]
    /\ UNCHANGED <<now, users, alerts, user_alerts, dispatched, attempts, published>>
    /\ UNCHANGED nlp_vars
    /\ UNCHANGED service_vars

\* Variant: the sweep takes every expired alert and negates the flag.
swept_is_active_toggled(alert) ==
    IF alert.expires_at < now THEN ~alert.is_active ELSE alert.is_active

\* Variant: the sweep compares with <=.
swept_is_active_inclusive(alert) ==
    IF alert.expires_at <= now /\ alert.is_active THEN FALSE ELSE alert.is_active

\* is_active of an alert after the sweep has looked at it.
swept_is_active(alert) ==
    IF alert.expires_at < now /\ alert.is_active THEN FALSE ELSE alert.is_active

\* The table alerts after cleanup_expired_alerts; ok = FALSE is an exception
\* of the query or the commit: printed, rollback.
swept_alerts(ok) ==
    IF ok
      THEN [i \in AlertIds |->
              [alerts[i] EXCEPT !.is_active = swept_is_active(alerts[i])]]
      ELSE alerts

\* cleanup_expired_alerts; ok = FALSE is an exception: rollback.
cleanup_expired_alerts(ok) ==
    /\ alerts' = swept_alerts(ok)
    /\ UNCHANGED <<now, users, user_alerts, tasks, dispatched, attempts, published>>
    /\ UNCHANGED nlp_vars
    /\ UNCHANGED service_vars

\* Whether cleanup_expired_alerts raises to its caller when the query or the
\* commit fails: the body after next(get_db()) is wrapped in try/except.
cleanup_expired_alerts_raises(ok) == FALSE

\* One iteration of the loop of periodic_alert_cleanup: the sweep, then the
\* asyncio.sleep the loop goes into.  session = FALSE is an exception of
\* next(get_db()), which cleanup_expired_alerts calls before its try.
periodic_alert_cleanup(session, ok) ==
    /\ alerts' = IF session THEN swept_alerts(ok) ELSE alerts
    /\ cleanup_sleep' = IF ~session \/ cleanup_expired_alerts_raises(ok)
                          THEN 300 ELSE 3600
    /\ UNCHANGED <<now, users, user_alerts, tasks, dispatched, attempts, published>>
    /\ UNCHANGED nlp_vars
    /\ UNCHANGED reports

\* The rows the query of mark_alert_read matches.
user_alert_query(user_id, alert_id) ==
    {k \in 1..Len(user_alerts) : /\ user_alerts[k].user_id = user_id
                                  /\ user_alerts[k].alert_id = alert_id}

\* Variant: the flag is negated.
marked_is_read_toggled(row) == ~row.is_read

\* is_read of the row mark_alert_read has found, after it.
marked_is_read(row) == TRUE

\* mark_alert_read; .first() is any of the matching rows; ok = FALSE is an
\* exception of the query or the commit: printed, rollback.
mark_alert_read(user_id, alert_id, ok) ==
    LET rows == user_alert_query(user_id, alert_id)
    IN /\ \E k \in rows \cup {0} :
            /\ (rows # {}) => (k # 0)
            /\ user_alerts' = IF ok /\ k # 0
                 THEN [user_alerts EXCEPT ![k].is_read = marked_is_read(user_alerts[k])]
                 ELSE user_alerts
       /\ UNCHANGED <<now, users, alerts, tasks, dispatched, attempts, published>>
       /\ UNCHANGED nlp_vars
       /\ UNCHANGED service_vars

\* The alerts the query of get_user_alerts selects: Alert joined with
\* UserAlert on alert_id, filtered.
user_alerts_filter(user_id, unread_only) ==
    {i \in AlertIds :
        /\ alerts[i].is_active
        /\ alerts[i].expires_at > now
        /\ \E k \in 1..Len(user_alerts) :
              /\ user_alerts[k].alert_id = i
              /\ user_alerts[k].user_id = user_id
              /\ unread_only => (user_alerts[k].is_read = FALSE)}

\* Variant: ascending order.
order_by_created_at_asc(ids) ==
    {r \in [1..Cardinality(ids) -> ids] :
        /\ \A i, j \in DOMAIN r : i # j => r[i] # r[j]
        /\ \A i, j \in DOMAIN r :
              i < j => alerts[r[i]].created_at <= alerts[r[j]].created_at}

\* order_by(Alert.created_at.desc()).all(): the orders the database may
\* return; rows of equal created_at come in any order.
order_by_created_at_desc(ids) ==
    {r \in [1..Cardinality(ids) -> ids] :
        /\ \A i, j \in DOMAIN r : i # j => r[i] # r[j]
        /\ \A i, j \in DOMAIN r :
              i < j => alerts[r[i]].created_at >= alerts[r[j]].created_at}

\* get_user_alerts: the ids of the AlertResponse list it returns; ok = FALSE
\* is an exception of the query: printed, the result is [].
get_user_alerts(t, user_id, unread_only, ok) ==
    /\ FreeSlot(t)
    /\ \E r \in order_by_created_at_desc(user_alerts_filter(user_id, unread_only)) :
         tasks' = [tasks EXCEPT ![t] =
            [DoneTask("query", 0, None, FALSE) EXCEPT !.out = IF ok THEN r ELSE <<>>]]
    /\ UNCHANGED <<now, users, alerts, user_alerts, dispatched, attempts, published>>
    /\ UNCHANGED nlp_vars
    /\ UNCHANGED service_vars

\* --------------------------------------------------- incois_integration.py
\* dict order of alert_endpoints: fetch_incois_alerts appends the items of
\* one endpoint after those of the endpoints before it.
EndpointRank(alert_type) ==
    CASE alert_type = "tsunami" -> 1
      [] alert_type = "storm_surge" -> 2
      [] alert_type = "high_waves" -> 3
      [] alert_type = "coastal_current" -> 4

\* str.lower() on the letters that occur in the feed's severity strings.
LowerChar(c) ==
    CASE c = "A" -> "a" [] c = "D" -> "d" [] c = "E" -> "e" [] c = "G" -> "g"
      [] c = "H" -> "h" [] c = "I" -> "i" [] c = "L" -> "l" [] c = "M" -> "m"
      [] c = "O" -> "o" [] c = "R" -> "r" [] c = "S" -> "s" [] c = "T" -> "t"
      [] c = "V" -> "v" [] c = "W" -> "w" [] c = "X" -> "x"
      [] OTHER -> c

lower(s) == [i \in 1..Len(s) |-> LowerChar(s[i])]

\* Variant: the lookup without .lower().
map_severity_exact(incois_severity) ==
    LET l == incois_severity
    IN CASE l = <<"l", "o", "w">> -> "low"
         [] l = <<"m", "o", "d", "e", "r", "a", "t", "e">> -> "medium"
         [] l = <<"h", "i", "g", "h">> -> "high"
         [] l = <<"s", "e", "v", "e", "r", "e">> -> "critical"
         [] l = <<"e", "x", "t", "r", "e", "m", "e">> -> "critical"
         [] OTHER -> "medium"

\* _map_severity: severity_mapping.get(incois_severity.lower(), 'medium').
\* A severity string of the feed is a sequence of characters.
map_severity(incois_severity) ==
    LET l == lower(incois_severity)
    IN CASE l = <<"l", "o", "w">> -> "low"
         [] l = <<"m", "o", "d", "e", "r", "a", "t", "e">> -> "medium"
         [] l = <<"h", "i", "g", "h">> -> "high"
         [] l = <<"s", "e", "v", "e", "r", "e">> -> "critical"
         [] l = <<"e", "x", "t", "r", "e", "m", "e">> -> "critical"
         [] OTHER -> "medium"

\* _calculate_expiry
calculate_expiry(duration_hours) == now + duration_hours * TicksPerHour

\* One item of _process_incois_data.
process_incois_data(alert_data) ==
    [alert_type |-> alert_data.alert_type, title |-> alert_data.title,
     severity |-> map_severity(alert_data.severity), source |-> "incois",
     created_at |-> now, expires_at |-> calculate_expiry(alert_data.duration)]

\* The feeds of at most MaxFeed items, in endpoint order.
FeedsOf(items) ==
    {f \in UNION {[1..n -> items] : n \in 0..MaxFeed} :
        \A i, j \in 1..Len(f) :
            i < j => EndpointRank(f[i].alert_type) <= EndpointRank(f[j].alert_type)}

\* sync_with_incois up to the call of store_alerts: fetch_incois_alerts
\* returns the processed items; an empty list ends the sync.
sync_with_incois(t, feed) ==
    /\ FreeSlot(t)
    /\ tasks' = [tasks EXCEPT ![t] =
         IF Len(feed) = 0
           THEN DoneTask("sync", 0, None, FALSE)
           ELSE [IdleTask EXCEPT !.kind = "sync", !.pc = "store",
                   !.items = [i \in 1..Len(feed) |-> process_incois_data(feed[i])]]]
    /\ UNCHANGED <<now, users, alerts, user_alerts, dispatched, attempts, published>>
    /\ UNCHANGED nlp_vars
    /\ UNCHANGED service_vars

\* The rows the duplicate check of store_alerts matches.
store_existing_query(alert_data) ==
    {i \in AlertIds : /\ alerts[i].alert_type = alert_data.alert_type
                      /\ alerts[i].title = alert_data.title
                      /\ alerts[i].source = "incois"}

\* The task after the current item of store_alerts is finished.
NextItem(task) ==
    IF Len(task.items) <= 1
      THEN DoneTask("sync", 0, None, FALSE)
      ELSE [IdleTask EXCEPT !.kind = "sync", !.pc = "store", !.items = Tail(task.items)]

\* One iteration of the loop of store_alerts up to db.commit(); ok = FALSE is
\* an exception of the query or the commit: printed, rollback, next item.
store_alerts(t, ok) ==
    /\ tasks[t].pc = "store"
    /\ LET alert_data == Head(tasks[t].items)
       IN IF ~ok \/ store_existing_query(alert_data) # {}
            THEN /\ alerts' = alerts
                 /\ tasks' = [tasks EXCEPT ![t] = NextItem(tasks[t])]
            ELSE /\ Len(alerts) < MaxAlerts
                 /\ alerts' = Append(alerts,
                      [id |-> Len(alerts) + 1, alert_type |-> alert_data.alert_type,
                       title |-> alert_data.title, severity |-> alert_data.severity,
                       source |-> alert_data.source, is_active |-> TRUE,
                       created_at |-> alert_data.created_at,
                       expires_at |-> alert_data.expires_at])
                 /\ tasks' = [tasks EXCEPT ![t].pc = "notify_affected",
                                           ![t].aid = Len(alerts) + 1]
    /\ UNCHANGED <<now, users, user_alerts, dispatched, attempts, published>>
    /\ UNCHANGED nlp_vars
    /\ UNCHANGED service_vars

\* _notify_affected_users; ok = FALSE is an exception of the query or the
\* commit.  The name UserAlert is read once per user inside the loop; every
\* exception, NameError included, is caught and printed.  The one call of
\* _send_push_notifications takes the whole list: user id 0 stands for it.
notify_affected_users(t, ok) ==
    /\ tasks[t].pc = "notify_affected"
    /\ IF ok /\ (users = {} \/ "UserAlert" \in IncoisGlobals)
         THEN /\ user_alerts' = user_alerts \o FanoutRows(tasks[t].aid, users)
              /\ dispatched' = dispatched (+) SetToBag({<<tasks[t].aid, 0>>})
              /\ attempts' = attempts \cup {<<tasks[t].aid, 0, "push">>}
         ELSE UNCHANGED <<user_alerts, dispatched, attempts>>
    /\ tasks' = [tasks EXCEPT ![t] = NextItem(tasks[t])]
    /\ UNCHANGED <<now, users, alerts, published>>
    /\ UNCHANGED nlp_vars
    /\ UNCHANGED service_vars

\* The raw items the feed delivers.
FeedTitles == {"Bulletin 1", "Bulletin 2"}
FeedItems ==
    [alert_type : AlertTypes, title : FeedTitles,
     severity : {<<"S", "e", "v", "e", "r", "e">>}, duration : {1}]

\* The three channels may each fail or not, for each user.
Failures(t) == [tasks[t].ulist -> SUBSET Channels]

Next ==
    \/ Advance
    \/ register_user(MaxUsers)
    \/ \E t \in Tasks, r \in Reports : generate_alert_from_report(t, r)
    \/ \E t \in Tasks, ok \in BOOLEAN : create_alert(t, ok)
    \/ \E t \in Tasks, ok \in BOOLEAN : notify_users(t, ok)
    \/ \E t \in Tasks : \E fails \in Failures(t) : send_notifications(t, fails)
    \/ \E t \in Tasks, ok \in BOOLEAN : publish_alert(t, ok)
    \/ \E t \in Tasks, feed \in FeedsOf(FeedItems) : sync_with_incois(t, feed)
    \/ \E t \in Tasks, ok \in BOOLEAN : store_alerts(t, ok)
    \/ \E t \in Tasks, ok \in BOOLEAN : notify_affected_users(t, ok)
    \/ \E t \in Tasks : Return(t)
    \/ \E ok \in BOOLEAN : cleanup_expired_alerts(ok)
    \/ \E u \in 1..MaxUsers, a \in 1..MaxAlerts, ok \in BOOLEAN : mark_alert_read(u, a, ok)

\* Every handler, one worker.
Spec == Init /\ [][Next]_vars

\* Report-triggered and direct creations on concurrent workers.
NextRace ==
    \/ Advance
    \/ \E t \in Tasks, r \in Reports : generate_alert_from_report(t, r)
    \/ \E t \in Tasks, ok \in BOOLEAN : create_alert(t, ok)
    \/ \E t \in Tasks, ok \in BOOLEAN : notify_users(t, ok)
    \/ \E t \in Tasks : \E fails \in Failures(t) : send_notifications(t, fails)
    \/ \E t \in Tasks, ok \in BOOLEAN : publish_alert(t, ok)
    \/ \E t \in Tasks : Return(t)

SpecRace == InitRace /\ [][NextRace]_vars

\* The fanout of create_alert over several users.
NextFanout ==
    \/ register_user(MaxFanoutUsers)
    \/ \E t \in Tasks, ok \in BOOLEAN : create_alert(t, ok)
    \/ \E t \in Tasks, ok \in BOOLEAN : notify_users(t, ok)
    \/ \E t \in Tasks : \E fails \in Failures(t) : send_notifications(t, fails)
    \/ \E t \in Tasks, ok \in BOOLEAN : publish_alert(t, ok)
    \/ \E t \in Tasks : Return(t)

SpecFanout == Init /\ [][NextFanout]_vars

\* Alerts with their fanout, the read receipts, the sweep and the query of a
\* user's alerts, for several users.
NextQuery ==
    \/ Advance
    \/ register_user(MaxFanoutUsers)
    \/ \E t \in Tasks, ok \in BOOLEAN : create_alert(t, ok)
    \/ \E t \in Tasks, ok \in BOOLEAN : notify_users(t, ok)
    \/ \E t \in Tasks : \E fails \in Failures(t) : send_notifications(t, fails)
    \/ \E t \in Tasks, ok \in BOOLEAN : publish_alert(t, ok)
    \/ \E t \in Tasks : Return(t)
    \/ \E ok \in BOOLEAN : cleanup_expired_alerts(ok)
    \/ \E u \in 1..MaxFanoutUsers, a \in 1..MaxAlerts, ok \in BOOLEAN :
          mark_alert_read(u, a, ok)
    \/ \E t \in Tasks, u \in 1..MaxFanoutUsers, unread_only \in BOOLEAN, ok \in BOOLEAN :
          get_user_alerts(t, u, unread_only, ok)

SpecQuery == Init /\ [][NextQuery]_vars

\* The background sweep beside the creation of alerts.
NextSweep ==
    \/ Advance
    \/ \E t \in Tasks, ok \in BOOLEAN : create_alert(t, ok)
    \/ \E t \in Tasks, ok \in BOOLEAN : notify_users(t, ok)
    \/ \E t \in Tasks : \E fails \in Failures(t) : send_notifications(t, fails)
    \/ \E t \in Tasks, ok \in BOOLEAN : publish_alert(t, ok)
    \/ \E t \in Tasks : Return(t)
    \/ \E session \in BOOLEAN, ok \in BOOLEAN : periodic_alert_cleanup(session, ok)

SpecSweep == Init /\ [][NextSweep]_vars

\* The report-to-alert scan beside direct creations.
NextReports ==
    \/ Advance
    \/ \E t \in Tasks, r \in Reports : process_report_alerts(t, r)
    \/ \E t \in Tasks, ok \in BOOLEAN : create_alert(t, ok)
    \/ \E t \in Tasks, ok \in BOOLEAN : notify_users(t, ok)
    \/ \E t \in Tasks : \E fails \in Failures(t) : send_notifications(t, fails)
    \/ \E t \in Tasks, ok \in BOOLEAN : publish_alert(t, ok)
    \/ \E t \in Tasks : Return(t)
    \/ \E ok \in BOOLEAN : cleanup_expired_alerts(ok)

SpecReports == InitRace /\ [][NextReports]_vars

\* The severity strings a feed may carry: the five keys of the table in
\* lower, upper and mixed case, strings that are no key, the empty string.
FeedSeverities ==
    {<<"l", "o", "w">>,
     <<"L", "O", "W">>,
     <<"m", "o", "d", "e", "r", "a", "t", "e">>,
     <<"M", "o", "d", "e", "r", "a", "t", "e">>,
     <<"h", "i", "g", "h">>,
     <<"H", "I", "G", "H">>,
     <<"s", "e", "v", "e", "r", "e">>,
     <<"S", "e", "v", "e", "r", "e">>,
     <<"e", "x", "t", "r", "e", "m", "e">>,
     <<"E", "X", "T", "R", "E", "M", "E">>,
     <<"m", "e", "d", "i", "u", "m">>,
     <<"c", "r", "i", "t", "i", "c", "a", "l">>,
     <<>>}

\* Feed items that differ in severity alone.
SeverityItems ==
    [alert_type : {"tsunami"}, title : {"Bulletin 1"}, severity : FeedSeverities,
     duration : {1}]

\* The feed sync over every severity string.
NextSeverity ==
    \/ register_user(MaxUsers)
    \/ \E t \in Tasks, feed \in FeedsOf(SeverityItems) : sync_with_incois(t, feed)
    \/ \E t \in Tasks, ok \in BOOLEAN : store_alerts(t, ok)
    \/ \E t \in Tasks, ok \in BOOLEAN : notify_affected_users(t, ok)
    \/ \E t \in Tasks : Return(t)

SpecSeverity == Init /\ [][NextSeverity]_vars

\* The durations (hours) a feed item may carry; the feed is not validated.
\* With duration 0 the two utcnow() calls of _process_incois_data decide the
\* order of created_at and expires_at, so 0 is left out.
FeedDurations == {-1, 1}

\* Feed items that differ in title and duration.
DurationItems ==
    [alert_type : {"tsunami"}, title : FeedTitles,
     severity : {<<"S", "e", "v", "e", "r", "e">>}, duration : FeedDurations]

\* The feed sync over every duration.
NextDuration ==
    \/ register_user(MaxUsers)
    \/ \E t \in Tasks, feed \in FeedsOf(DurationItems) : sync_with_incois(t, feed)
    \/ \E t \in Tasks, ok \in BOOLEAN : store_alerts(t, ok)
    \/ \E t \in Tasks, ok \in BOOLEAN : notify_affected_users(t, ok)
    \/ \E t \in Tasks : Return(t)

SpecDuration == Init /\ [][NextDuration]_vars

\* Feed syncs on concurrent workers: the periodic loop and the calls of
\* trigger_incois_sync.  sync_with_incois awaits the HTTP fetch and
\* store_alerts, so syncs interleave inside one event loop as well.
NextSyncRace ==
    \/ \E t \in Tasks, feed \in FeedsOf(FeedItems) : sync_with_incois(t, feed)
    \/ \E t \in Tasks, ok \in BOOLEAN : store_alerts(t, ok)
    \/ \E t \in Tasks, ok \in BOOLEAN : notify_affected_users(t, ok)
    \/ \E t \in Tasks : Return(t)

SpecSyncRace == InitRace /\ [][NextSyncRace]_vars

\* ------------------------------------------------------ main.py: reports
\* The accounts verify_token may resolve a request to, one of each role.
UserRole == {"citizen", "analyst", "official"}
CurrentUsers ==
    {[id |-> 1, role |-> "citizen"], [id |-> 2, role |-> "analyst"],
     [id |-> 3, role |-> "official"]}

valid_hazard_types ==
    {"tsunami", "storm_surge", "high_waves", "swell_surge", "coastal_current",
     "flooding", "abnormal_tide", "other"}

\* The hazard types and severities the report form is sent with.
FormHazardTypes == {"tsunami", "earthquake"}
FormSeverities == {"medium", "high"}

\* HazardReport(...) as create_hazard_report builds it, with the column
\* defaults of models.py.
NewReport(hazard_type, severity) ==
    [id |-> Len(reports) + 1, hazard_type |-> hazard_type, severity |-> severity,
     is_verified |-> FALSE, verified_by |-> None, verified_at |-> None,
     created_at |-> now]

\* The columns of a hazard_reports row that the alert service reads.
ReportOf(row) ==
    [hazard_type |-> row.hazard_type, severity |-> row.severity,
     is_verified |-> row.is_verified, created_at |-> row.created_at]

\* The worker after an endpoint has answered with a status code.
Answered(kind, rid, code, hotspots) ==
    [DoneTask(kind, 0, code, code # 200) EXCEPT !.rid = rid, !.hotspots = hotspots]

\* create_hazard_report: POST /reports.  ok = FALSE is an exception of the
\* commit.  After the commit the handler awaits generate_hotspots_async, which
\* catches its own exceptions.
create_hazard_report(t, hazard_type, severity, ok) ==
    /\ FreeSlot(t)
    /\ Len(reports) < MaxReports
    /\ IF hazard_type \notin valid_hazard_types
         THEN /\ reports' = reports
              /\ tasks' = [tasks EXCEPT ![t] = Answered("report", 0, 400, FALSE)]
         ELSE IF ~ok
           THEN /\ reports' = reports
                /\ tasks' = [tasks EXCEPT ![t] = Answered("report", 0, 500, FALSE)]
           ELSE /\ reports' = Append(reports, NewReport(hazard_type, severity))
                /\ tasks' = [tasks EXCEPT ![t] =
                     Answered("report", Len(reports) + 1, 200, TRUE)]
    /\ UNCHANGED <<now, users, alerts, user_alerts, dispatched, attempts, published>>
    /\ UNCHANGED nlp_vars
    /\ UNCHANGED cleanup_sleep

\* Variant: every authenticated account may verify.
may_verify_any(role) == TRUE

\* current_user.role in ['analyst', 'official']
may_verify(role) == role \in {"analyst", "official"}

\* verify_hazard_report: PUT /reports/{report_id}/verify.  ok = FALSE is an
\* exception of the commit.
verify_hazard_report(t, report_id, current_user, ok) ==
    /\ FreeSlot(t)
    /\ IF ~may_verify(current_user.role)
         THEN /\ reports' = reports
              /\ tasks' = [tasks EXCEPT ![t] = Answered("verify", report_id, 403, FALSE)]
         ELSE IF report_id \notin DOMAIN reports
           THEN /\ reports' = reports
                /\ tasks' = [tasks EXCEPT ![t] = Answered("verify", report_id, 404, FALSE)]
         ELSE IF ~ok
           THEN /\ reports' = reports
                /\ tasks' = [tasks EXCEPT ![t] = Answered("verify", report_id, 500, FALSE)]
           ELSE /\ reports' = [reports EXCEPT ![report_id].is_verified = TRUE,
                                              ![report_id].verified_by = current_user.id,
                                              ![report_id].verified_at = now]
                /\ tasks' = [tasks EXCEPT ![t] = Answered("verify", report_id, 200, FALSE)]
    /\ UNCHANGED <<now, users, alerts, user_alerts, dispatched, attempts, published>>
    /\ UNCHANGED nlp_vars
    /\ UNCHANGED cleanup_sleep

\* The reports, their verification and the report-to-alert scan over the
\* stored rows.
NextVerify ==
    \/ Advance
    \/ \E t \in Tasks, h \in FormHazardTypes, s \in FormSeverities, ok \in BOOLEAN :
          create_hazard_report(t, h, s, ok)
    \/ \E t \in Tasks, id \in 1..MaxReports, u \in CurrentUsers, ok \in BOOLEAN :
          verify_hazard_report(t, id, u, ok)
    \/ \E t \in Tasks, k \in DOMAIN reports :
          process_report_alerts(t, ReportOf(reports[k]))
    \/ \E t \in Tasks, ok \in BOOLEAN : create_alert(t, ok)
    \/ \E t \in Tasks, ok \in BOOLEAN : notify_users(t, ok)
    \/ \E t \in Tasks : \E fails \in Failures(t) : send_notifications(t, fails)
    \/ \E t \in Tasks, ok \in BOOLEAN : publish_alert(t, ok)
    \/ \E t \in Tasks : Return(t)

SpecVerify == Init /\ [][NextVerify]_vars

\* ------------------------------------------- nlp-engine: processors.py
\* A text is a sequence of tokens (the words between blanks) together with
\* the compound score the VADER lexicon gives its cleaned form; VADER is a
\* library, its score is an input.  Probabilities are counted in tenths,
\* sentiment scores in hundredths.
Words ==
    {"tsunami", "flood", "urgent", "immediate", "critical", "warning", "calm",
     "#tsunami"}
Compounds == {-50, -10, 50}

\* The tokens of Words that the substitutions of preprocess_text delete:
\* URLs (http\S+|www\S+|https\S+), mentions and hashtags (@\w+|#\w+).
RemovedTokens == {"#tsunami"}

\* preprocess_text on lower-case tokens without special characters.
preprocess_text(text) ==
    [words |-> SelectSeq(text.words, LAMBDA w : w \notin RemovedTokens),
     compound |-> text.compound]

\* re.search(r'\b(p1|p2|...)\b', text): one of the phrases occurs, as whole
\* words.
HasPhrase(words, phrases) ==
    \E p \in phrases : \E i \in 1..Len(words) :
        /\ i + Len(p) - 1 <= Len(words)
        /\ SubSeq(words, i, i + Len(p) - 1) = p

\* re.search(r'\b(p1|...)\b.*\b(q1|...)\b', text): a phrase of the first
\* group and, after it, a word of the second.
PhraseThen(words, phrases, seconds) ==
    \E p \in phrases : \E i \in 1..Len(words) :
        /\ i + Len(p) - 1 <= Len(words)
        /\ SubSeq(words, i, i + Len(p) - 1) = p
        /\ \E j \in (i + Len(p))..Len(words) : words[j] \in seconds

HazardTypes == {"tsunami", "storm_surge", "high_waves", "flooding", "coastal_current"}

\* hazard_patterns[hazard_type][n - 1] searched in the text.
hazard_patterns(hazard_type, n, words) ==
    CASE hazard_type = "tsunami" /\ n = 1 ->
           HasPhrase(words, {<<"tsunami">>, <<"tidal", "wave">>, <<"seismic", "wave">>})
      [] hazard_type = "tsunami" /\ n = 2 ->
           PhraseThen(words, {<<"wave", "height">>, <<"wave", "size">>},
                      {"high", "large", "big", "massive"})
      [] hazard_type = "tsunami" /\ n = 3 ->
           PhraseThen(words, {<<"earthquake">>, <<"seismic">>}, {"ocean", "sea", "coastal"})
      [] hazard_type = "storm_surge" /\ n = 1 ->
           HasPhrase(words, {<<"storm", "surge">>, <<"storm", "tide">>})
      [] hazard_type = "storm_surge" /\ n = 2 ->
           HasPhrase(words, {<<"coastal", "flooding">>, <<"shore", "flooding">>})
      [] hazard_type = "storm_surge" /\ n = 3 ->
           PhraseThen(words, {<<"water", "level">>, <<"sea", "level">>},
                      {"rising", "increasing", "high"})
      [] hazard_type = "high_waves" /\ n = 1 ->
           HasPhrase(words, {<<"high", "waves">>, <<"big", "waves">>, <<"rough", "seas">>})
      [] hazard_type = "high_waves" /\ n = 2 ->
           PhraseThen(words, {<<"wave", "height">>, <<"wave", "size">>},
                      {"high", "large", "big"})
      [] hazard_type = "high_waves" /\ n = 3 ->
           PhraseThen(words, {<<"dangerous">>, <<"hazardous">>}, {"waves", "seas"})
      [] hazard_type = "flooding" /\ n = 1 ->
           HasPhrase(words, {<<"flood">>, <<"flooding">>, <<"inundation">>})
      [] hazard_type = "flooding" /\ n = 2 ->
           HasPhrase(words, {<<"water", "level">>, <<"water", "rising">>})
      [] hazard_type = "flooding" /\ n = 3 ->
           HasPhrase(words, {<<"submerged">>, <<"underwater">>, <<"waterlogged">>})
      [] hazard_type = "coastal_current" /\ n = 1 ->
           HasPhrase(words, {<<"current">>, <<"rip", "current">>, <<"undertow">>})
      [] hazard_type = "coastal_current" /\ n = 2 ->
           HasPhrase(words, {<<"strong", "current">>, <<"dangerous", "current">>})
      [] hazard_type = "coastal_current" /\ n = 3 ->
           PhraseThen(words, {<<"swimming">>, <<"drowning">>}, {"current", "undertow"})

PatternsPerType == 3

\* SocialMediaProcessor.hazard_keywords['general'] and urgency_keywords.
general_keywords == {"hazard", "danger", "warning", "alert", "emergency", "disaster"}
urgency_keywords == {"urgent", "immediate", "emergency", "critical", "warning"}

\* `keyword in text.lower()`: a token of Words holds a keyword only by being
\* it.
KeywordIn(keyword, words) == \E i \in 1..Len(words) : words[i] = keyword

\* Variant: only the general keywords give a tag.
extract_hazard_keywords_general(text) ==
    IF \E k \in general_keywords : KeywordIn(k, text.words)
      THEN {"general_hazard"} ELSE {}

\* extract_hazard_keywords: list(set(...)) of the tags.
extract_hazard_keywords(text) ==
    {ht \in HazardTypes :
        \E n \in 1..PatternsPerType : hazard_patterns(ht, n, text.words)}
    \cup (IF \E k \in general_keywords : KeywordIn(k, text.words)
            THEN {"general_hazard"} ELSE {})

\* calculate_sentiment
calculate_sentiment(text) == IF text.words = <<>> THEN 0 ELSE text.compound

Min(a, b) == IF a < b THEN a ELSE b

\* Variant: one bonus for the whole pattern table.
pattern_bonus_once(words) ==
    IF \E ht \in HazardTypes : \E n \in 1..PatternsPerType : hazard_patterns(ht, n, words)
      THEN 2 ELSE 0

\* The loop over hazard_patterns of calculate_hazard_probability: 0.2 for
\* every hazard type one of whose patterns matches (break leaves the inner
\* loop only).
pattern_bonus(words) ==
    2 * Cardinality({ht \in HazardTypes :
            \E n \in 1..PatternsPerType : hazard_patterns(ht, n, words)})

\* calculate_hazard_probability, in tenths.
calculate_hazard_probability(text, hazard_keywords) ==
    IF text.words = <<>>
      THEN 0
      ELSE Min(10,
             (IF hazard_keywords # {} THEN 3 ELSE 0)
             + pattern_bonus(text.words)
             + Min(Cardinality({k \in urgency_keywords : KeywordIn(k, text.words)}), 3)
             + (IF calculate_sentiment(text) < -10 THEN 2 ELSE 0))

\* ------------------------------------------------- nlp-engine: main.py
\* The texts of at most n tokens.
TextsUpTo(n) ==
    [words : UNION {[1..k -> Words] : k \in 0..n}, compound : Compounds]

\* A new handler takes the lowest free worker slot.
FreeJob(t) ==
    /\ jobs[t].pc = "idle"
    /\ \A s \in Jobs : s < t => jobs[s].pc # "idle"

\* POST /analyze/text: the response.
analyze_text(t, text) ==
    /\ FreeJob(t)
    /\ LET processed_text == preprocess_text(text)
           hazard_keywords == extract_hazard_keywords(processed_text)
           sentiment_score == calculate_sentiment(processed_text)
           hazard_probability ==
               calculate_hazard_probability(processed_text, hazard_keywords)
       IN jobs' = [jobs EXCEPT ![t] =
            [IdleJob EXCEPT !.kind = "analyze", !.pc = "done",
               !.out = <<[text |-> text, processed_text |-> processed_text,
                          hazard_keywords |-> hazard_keywords,
                          sentiment_score |-> sentiment_score,
                          hazard_probability |-> hazard_probability,
                          is_hazard_related |-> hazard_probability > 5]>>]]
    /\ UNCHANGED <<posts, new_social_post>>
    /\ UNCHANGED backend_vars
    /\ UNCHANGED service_vars

\* The posts the collectors deliver.
Platforms == {"twitter", "facebook"}
PostIds == {"tweet_001", "tweet_002"}
PostsOf(platforms, ids, texts) ==
    [platform : platforms, post_id : ids, content : texts]

\* collect_and_process_social_media up to the loop: all_posts.
collect_and_process_social_media(t, all_posts) ==
    /\ FreeJob(t)
    /\ jobs' = [jobs EXCEPT ![t] =
         IF Len(all_posts) = 0
           THEN [IdleJob EXCEPT !.kind = "batch", !.pc = "done"]
           ELSE [IdleJob EXCEPT !.kind = "batch", !.pc = "check", !.items = all_posts]]
    /\ UNCHANGED <<posts, new_social_post>>
    /\ UNCHANGED backend_vars
    /\ UNCHANGED service_vars

\* process_single_post has ended for the head of the batch: the loop of
\* collect_and_process_social_media goes on, or ends when process_single_post
\* raised.
NextPost(job, outcome, raises) ==
    LET entry == [post |-> Head(job.items), outcome |-> outcome]
    IN IF raises \/ Len(job.items) <= 1
         THEN [job EXCEPT !.pc = "done", !.items = <<>>, !.raised = raises,
                          !.log = Append(@, entry)]
         ELSE [job EXCEPT !.pc = "check", !.items = Tail(@),
                          !.log = Append(@, entry)]

\* Variant: the duplicate check compares the content instead of the post_id.
existing_post_by_content(post_data) ==
    {k \in 1..Len(posts) : /\ posts[k].platform = post_data.platform
                           /\ posts[k].content = post_data.content}

\* The rows the duplicate check of process_single_post matches.
existing_post_query(post_data) ==
    {k \in 1..Len(posts) : /\ posts[k].platform = post_data.platform
                           /\ posts[k].post_id = post_data.post_id}

\* Variant: the threshold is inclusive.
hazard_relevance_inclusive(hazard_probability) == hazard_probability >= 2

\* `if hazard_probability > 0.2`
hazard_relevance(hazard_probability) == hazard_probability > 2

\* SocialMediaPost(...) as built by process_single_post.
SocialPost(post_data) ==
    LET processed_text == preprocess_text(post_data.content)
        hazard_keywords == extract_hazard_keywords(processed_text)
    IN [platform |-> post_data.platform, post_id |-> post_data.post_id,
        content |-> post_data.content, hazard_keywords |-> hazard_keywords,
        sentiment_score |-> calculate_sentiment(processed_text),
        hazard_probability |->
            calculate_hazard_probability(processed_text, hazard_keywords)]

\* process_single_post up to the threshold test; ok = FALSE is an exception
\* of the query: printed, the post is dropped.
process_single_post(t, ok) ==
    /\ jobs[t].pc = "check"
    /\ LET post_data == Head(jobs[t].items)
       IN jobs' = [jobs EXCEPT ![t] =
            IF ~ok THEN NextPost(jobs[t], "error", FALSE)
            ELSE IF existing_post_query(post_data) # {}
              THEN NextPost(jobs[t], "exists", FALSE)
            ELSE IF hazard_relevance(SocialPost(post_data).hazard_probability)
              THEN [jobs[t] EXCEPT !.pc = "commit"]
            ELSE NextPost(jobs[t], "below", FALSE)]
    /\ UNCHANGED <<posts, new_social_post>>
    /\ UNCHANGED backend_vars
    /\ UNCHANGED service_vars

\* db.add(social_post); db.commit(); ok = FALSE is an exception of the
\* commit: printed, nothing is stored or published.
process_single_post_commit(t, ok) ==
    /\ jobs[t].pc = "commit"
    /\ IF ok
         THEN /\ posts' = Append(posts, SocialPost(Head(jobs[t].items)))
              /\ jobs' = [jobs EXCEPT ![t].pc = "publish"]
         ELSE /\ posts' = posts
              /\ jobs' = [jobs EXCEPT ![t] = NextPost(jobs[t], "error", FALSE)]
    /\ UNCHANGED new_social_post
    /\ UNCHANGED backend_vars
    /\ UNCHANGED service_vars

\* Variant: the publish call outside the try.
new_social_post_uncaught(ok) == ~ok

\* Whether a failing publish call raises from process_single_post: the call
\* is inside the try whose except prints.
new_social_post_raises(ok) == FALSE

\* redis_client.publish("new_social_post", ...); ok = FALSE is an exception
\* of the call: the event is lost.
process_single_post_publish(t, ok) ==
    /\ jobs[t].pc = "publish"
    /\ LET post_data == Head(jobs[t].items)
           row == SocialPost(post_data)
           payload == [platform |-> row.platform, content |-> row.content,
                       hazard_probability |-> row.hazard_probability,
                       sentiment_score |-> row.sentiment_score]
       IN /\ new_social_post' =
               IF ok THEN new_social_post (+) SetToBag({payload}) ELSE new_social_post
          /\ jobs' = [jobs EXCEPT ![t] =
               NextPost(jobs[t], IF ok THEN "stored" ELSE "unpublished",
                        new_social_post_raises(ok))]
    /\ UNCHANGED posts
    /\ UNCHANGED backend_vars
    /\ UNCHANGED service_vars

\* The handler has returned; the worker slot is free again.
ReturnJob(t) ==
    /\ jobs[t].pc = "done"
    /\ jobs' = [jobs EXCEPT ![t] = IdleJob]
    /\ UNCHANGED <<posts, new_social_post>>
    /\ UNCHANGED backend_vars
    /\ UNCHANGED service_vars

\* The texts of the posts of the ingestion specifications.
MaxPostWords == 1
PostTexts ==
    {x \in TextsUpTo(MaxPostWords) :
        /\ x.compound \in {-50, 50}
        /\ \A i \in 1..Len(x.words) : x.words[i] \in {"tsunami", "calm"}}

MaxBatch == 2
MaxPosts == 2
Batches(items) == UNION {[1..n -> items] : n \in 0..MaxBatch}

\* Ingestion, one batch at a time: a batch starts when no other is running,
\* and its posts are processed one after the other.
NextIngest ==
    \/ \E t \in Jobs, b \in Batches(PostsOf(Platforms, PostIds, PostTexts)) :
          /\ \A s \in Jobs : jobs[s].pc = "idle"
          /\ Len(posts) + Len(b) <= MaxPosts
          /\ collect_and_process_social_media(t, b)
    \/ \E t \in Jobs, ok \in BOOLEAN : process_single_post(t, ok)
    \/ \E t \in Jobs, ok \in BOOLEAN : process_single_post_commit(t, ok)
    \/ \E t \in Jobs, ok \in BOOLEAN : process_single_post_publish(t, ok)
    \/ \E t \in Jobs : ReturnJob(t)

SpecIngest == Init /\ [][NextIngest]_vars

\* Ingestion on concurrent workers, all of one post with a hazard text.
NextIngestRace ==
    \/ \E t \in Jobs, b \in Batches(PostsOf({"twitter"}, {"tweet_001"},
                                  {x \in PostTexts : x.words = <<"tsunami">>})) :
          Len(posts) + Len(b) <= MaxPosts /\ collect_and_process_social_media(t, b)
    \/ \E t \in Jobs, ok \in BOOLEAN : process_single_post(t, ok)
    \/ \E t \in Jobs, ok \in BOOLEAN : process_single_post_commit(t, ok)
    \/ \E t \in Jobs, ok \in BOOLEAN : process_single_post_publish(t, ok)
    \/ \E t \in Jobs : ReturnJob(t)

SpecIngestRace == InitRace /\ [][NextIngestRace]_vars

\* The text-analysis endpoint on every text of at most MaxWords tokens.
MaxWords == 4
NextText ==
    \/ \E t \in Jobs, text \in TextsUpTo(MaxWords) : analyze_text(t, text)
    \/ \E t \in Jobs : ReturnJob(t)

SpecText == Init /\ [][NextText]_vars

\* ================================================================ claims
HighSeverity == {"high", "critical"}

\* Active alerts of (alert_type, source) created earlier, less than the
\* window ago.
RecentActive(alert_type, source) ==
    {i \in AlertIds : /\ alerts[i].alert_type = alert_type
                      /\ alerts[i].source = source
                      /\ alerts[i].is_active
                      /\ alerts[i].created_at < now
                      /\ alerts[i].created_at > now - Window}

\* C1: a call of generate_alert_from_report for a high/critical report while
\* an active crowdsourced alert of the report's type was created less than
\* one hour earlier creates no alert and returns that alert.
C1_SuppressedReturnsExisting ==
    [][\A t \in Tasks, r \in Reports :
         (/\ generate_alert_from_report(t, r)
          /\ r.severity \in HighSeverity
          /\ RecentActive(r.hazard_type, "crowdsourced") # {})
         => (/\ alerts' = alerts
             /\ tasks'[t].pc = "done"
             /\ tasks'[t].res \in RecentActive(r.hazard_type, "crowdsourced"))]_vars

C3_NoTwoActiveWithinWindow ==
    \A i, j \in AlertIds :
        (/\ i < j
         /\ alerts[i].is_active /\ alerts[j].is_active
         /\ alerts[i].alert_type = alerts[j].alert_type
         /\ alerts[i].source = alerts[j].source)
        => alerts[j].created_at - alerts[i].created_at >= Window

\* C4: when the active alerts of the report's type created within the window
\* all have another source, a report-triggered creation goes on to create a
\* crowdsourced alert.
C4_SuppressionKeyedBySource ==
    [][\A t \in Tasks, r \in Reports :
         (/\ generate_alert_from_report(t, r)
          /\ r.severity \in HighSeverity
          /\ existing_alert_query(r.hazard_type) # {}
          /\ \A i \in existing_alert_query(r.hazard_type) :
                alerts[i].source # "crowdsourced")
         => (/\ tasks'[t].pc = "gen_create"
             /\ tasks'[t].src = "crowdsourced")]_vars

\* C5: an alert that is inactive is inactive in every later state.
C5_InactiveIsTerminal ==
    [][\A i \in AlertIds :
         ~alerts[i].is_active => (i <= Len(alerts') /\ ~alerts'[i].is_active)]_vars

\* An alert of the same type and source was created after another one was
\* deactivated, and the first is still inactive.
C5_Witness ==
    \E i, j \in AlertIds :
        /\ ~alerts[i].is_active /\ alerts[j].is_active
        /\ alerts[j].alert_type = alerts[i].alert_type
        /\ alerts[j].source = alerts[i].source
        /\ alerts[j].created_at > alerts[i].expires_at

\* C6: the alert create_alert stores is active, and a sweep that runs
\* without error deactivates every alert of create_alert with
\* expires_at <= now.
C6_SweepAtExpiry ==
    [][/\ \A t \in Tasks :
            create_alert(t, TRUE) => alerts'[Len(alerts')].is_active
       /\ cleanup_expired_alerts(TRUE)
            => \A i \in AlertIds :
                 (alerts[i].source # "incois" /\ alerts[i].expires_at <= now)
                 => ~alerts'[i].is_active]_vars

\* C7: no step removes or rewrites a stored alert, except that the sweep
\* sets is_active to false on alerts that are active with expires_at < now.
C7_OnlySweepDeactivates ==
    [][/\ Len(alerts') >= Len(alerts)
       /\ \A i \in AlertIds :
            \/ alerts'[i] = alerts[i]
            \/ /\ cleanup_expired_alerts(TRUE)
               /\ alerts[i].is_active
               /\ alerts[i].expires_at < now
               /\ alerts'[i] = [alerts[i] EXCEPT !.is_active = FALSE]]_vars

\* A sweep has deactivated one alert and left another, stored at the time
\* and not yet expired, as it was.
C7_Witness ==
    \E i, j \in AlertIds :
        /\ ~alerts[i].is_active
        /\ alerts[j].is_active
        /\ alerts[j].created_at <= alerts[i].expires_at
        /\ alerts[j].expires_at >= now

\* The alerts of (alert_type, source) are all inactive, and there is one.
OnlyInactive(alert_type, source) ==
    LET same == {i \in AlertIds : /\ alerts[i].alert_type = alert_type
                                  /\ alerts[i].source = source}
    IN same # {} /\ \A i \in same : ~alerts[i].is_active

\* C8: when the alerts of a trigger's (alert_type, source) are all inactive,
\* a feed item stored without error adds a new active alert, and a
\* high/critical report goes on to create one.
C8_NewAlertAfterInactive ==
    [][\A t \in Tasks :
         /\ (/\ store_alerts(t, TRUE)
             /\ OnlyInactive(Head(tasks[t].items).alert_type, "incois"))
            => (/\ Len(alerts') = Len(alerts) + 1
                /\ alerts'[Len(alerts')].is_active)
         /\ \A r \in Reports :
              (/\ generate_alert_from_report(t, r)
               /\ r.severity \in HighSeverity
               /\ OnlyInactive(r.hazard_type, "crowdsourced"))
              => tasks'[t].pc = "gen_create"]_vars

\* An unread UserAlert row for (user, alert) is stored in the next state.
UnreadRowAfter(u, aid) ==
    \E k \in 1..Len(user_alerts') :
        user_alerts'[k] = [user_id |-> u, alert_id |-> aid, is_read |-> FALSE]

\* C9: a fanout that runs without error, of create_alert or of the feed
\* sync, leaves an unread UserAlert row for every user and invokes the
\* dispatcher once for each.
C9_FanoutReachesEveryUser ==
    [][\A t \in Tasks :
         /\ notify_users(t, TRUE)
              => \A u \in users : UnreadRowAfter(u, tasks[t].aid)
         /\ (\E f \in Failures(t) : send_notifications(t, f))
              => \A u \in tasks[t].ulist :
                   CopiesIn(<<tasks[t].aid, u>>, dispatched') = 1
         /\ notify_affected_users(t, TRUE)
              => \A u \in users :
                   /\ UnreadRowAfter(u, tasks[t].aid)
                   /\ CopiesIn(<<tasks[t].aid, u>>, dispatched') = 1]_vars

\* C10: after _send_notifications, whichever channels failed, email and push
\* (and SMS when a phone number is known) have been tried for every user of
\* the fanout.
C10_ChannelsIsolated ==
    \A t \in Tasks :
        tasks[t].pc = "publish"
        => \A u \in DOMAIN tasks[t].failed :
             /\ <<tasks[t].aid, u, "email">> \in attempts
             /\ user_has_phone => <<tasks[t].aid, u, "sms">> \in attempts
             /\ <<tasks[t].aid, u, "push">> \in attempts

\* The email of one user of a fanout failed; push was tried for that user
\* and email and push for another user.
C10_Witness ==
    \E t \in Tasks :
        /\ tasks[t].pc = "publish"
        /\ \E u, v \in DOMAIN tasks[t].failed :
             /\ u # v
             /\ "email" \in tasks[t].failed[u]
             /\ <<tasks[t].aid, u, "push">> \in attempts
             /\ <<tasks[t].aid, v, "email">> \in attempts
             /\ <<tasks[t].aid, v, "push">> \in attempts

\* C11: a create_alert in which the fanout (the UserAlert rows or a
\* notification channel) or the new_alert publish failed still returns the
\* new alert, and that alert is stored and active.
C11_FanoutFailureKeepsAlert ==
    \A t \in Tasks :
        (tasks[t].kind \in {"create", "gen"} /\ tasks[t].pc = "done"
            /\ tasks[t].errors # {})
        => /\ ~tasks[t].raised
           /\ tasks[t].res = tasks[t].aid
           /\ tasks[t].res \in AlertIds
           /\ alerts[tasks[t].res].is_active

\* create_alert has returned an alert whose fanout failed to store its rows
\* and whose publish failed too.
C11_Witness ==
    \E t \in Tasks :
        /\ tasks[t].pc = "done"
        /\ {"fanout", "publish"} \subseteq tasks[t].errors
        /\ tasks[t].res \in AlertIds

\* create_alert has returned an alert after a notification channel failed.
C11_WitnessChannel ==
    \E t \in Tasks :
        /\ tasks[t].pc = "done"
        /\ "channel" \in tasks[t].errors
        /\ tasks[t].res \in AlertIds

\* C12: mark_alert_read without error sets is_read on the UserAlert row of
\* (user, alert) whatever it was and changes no other row; on a row already
\* read, and when (user, alert) has no row, it changes nothing and adds no
\* row.
C12_MarkReadIdempotent ==
    [][\A u \in 1..MaxUsers, a \in 1..MaxAlerts :
         mark_alert_read(u, a, TRUE)
         => /\ Len(user_alerts') = Len(user_alerts)
            /\ \A k \in 1..Len(user_alerts) :
                 user_alerts'[k] =
                    IF k \in user_alert_query(u, a)
                      THEN [user_alerts[k] EXCEPT !.is_read = TRUE]
                      ELSE user_alerts[k]
            /\ (\A k \in user_alert_query(u, a) : user_alerts[k].is_read)
                 => user_alerts' = user_alerts]_vars

\* A row has been marked read, and an alert is stored for which the user has
\* no row.
C12_Witness ==
    /\ \E k \in 1..Len(user_alerts) : user_alerts[k].is_read
    /\ \E u \in users, a \in AlertIds : user_alert_query(u, a) = {}

\* The elements of a sequence.
Range(r) == {r[i] : i \in DOMAIN r}

\* C13: get_user_alerts without error returns, each once, the alerts that
\* have a UserAlert row of the user, are active and have expires_at > now
\* (with unread_only: whose row is unread), from the most recent created_at
\* to the oldest; an alert whose row is read is not in an unread-only result.
C13_UserAlertsQuery ==
    [][\A t \in Tasks, u \in 1..MaxFanoutUsers, unread_only \in BOOLEAN :
         get_user_alerts(t, u, unread_only, TRUE)
         => LET r == tasks'[t].out
            IN /\ Range(r) = {i \in AlertIds :
                     /\ user_alert_query(u, i) # {}
                     /\ alerts[i].is_active
                     /\ alerts[i].expires_at > now
                     /\ unread_only =>
                           \E k \in user_alert_query(u, i) : ~user_alerts[k].is_read}
               /\ \A i, j \in DOMAIN r : i # j => r[i] # r[j]
               /\ \A i, j \in DOMAIN r :
                     i < j => alerts[r[i]].created_at >= alerts[r[j]].created_at
               /\ unread_only =>
                     \A i \in Range(r) : \A k \in user_alert_query(u, i) :
                        ~user_alerts[k].is_read]_vars

\* A query has returned two alerts of different age while the user has
\* marked one of the two read.
C13_Witness ==
    \E t \in Tasks :
        /\ tasks[t].kind = "query" /\ tasks[t].pc = "done"
        /\ Len(tasks[t].out) = 2
        /\ alerts[tasks[t].out[1]].created_at > alerts[tasks[t].out[2]].created_at
        /\ \E k \in 1..Len(user_alerts) : user_alerts[k].is_read

\* C14: no step removes a UserAlert row, and a step that changes one changes
\* only is_read, from false to true.
C14_UserAlertOnlyRead ==
    [][/\ Len(user_alerts') >= Len(user_alerts)
       /\ \A k \in 1..Len(user_alerts) :
            \/ user_alerts'[k] = user_alerts[k]
            \/ /\ ~user_alerts[k].is_read
               /\ user_alerts'[k] = [user_alerts[k] EXCEPT !.is_read = TRUE]]_vars

\* A row was marked read, its alert has been swept, and the rows of a later
\* fanout are stored after it.
C14_Witness ==
    \E k \in 1..Len(user_alerts) :
        /\ user_alerts[k].is_read
        /\ ~alerts[user_alerts[k].alert_id].is_active
        /\ k < Len(user_alerts)

\* C20: a report that reaches generate_alert_from_report through the scan is
\* verified and of severity high or critical, so an alert is created from no
\* other report.
C20_OnlyVerifiedHighReports ==
    \A t \in Tasks :
        tasks[t].kind = "gen"
        => (tasks[t].verified /\ tasks[t].sev \in HighSeverity)

\* The scan has handed a verified critical report to
\* generate_alert_from_report while an alert is stored.
C20_Witness ==
    \E t \in Tasks :
        /\ tasks[t].kind = "gen" /\ tasks[t].pc = "done"
        /\ tasks[t].sev = "critical"
        /\ Len(alerts) > 0
\* The key of a post.
PostKey(p) == <<p.platform, p.post_id>>

\* The outcomes of process_single_post that leave the post committed.
Committed == {"stored", "unpublished"}

\* C15: one call after the other, no (platform, post_id) is stored twice; a
\* post that process_single_post has stored has exactly one row, and a later
\* call for it in the batch neither commits nor publishes.
C15_ReingestIsNoOp ==
    /\ \A k1, k2 \in 1..Len(posts) :
          PostKey(posts[k1]) = PostKey(posts[k2]) => k1 = k2
    /\ \A t \in Jobs : \A i, j \in 1..Len(jobs[t].log) :
          LET first == jobs[t].log[i]
              second == jobs[t].log[j]
          IN (/\ i < j
              /\ PostKey(first.post) = PostKey(second.post)
              /\ first.outcome \in Committed)
             => (/\ second.outcome \notin Committed
                 /\ Cardinality(existing_post_query(first.post)) = 1)

\* A batch held the same post twice: the first was stored, the second found
\* to exist.
C15_Witness ==
    \E t \in Jobs :
        /\ Len(jobs[t].log) = 2
        /\ jobs[t].log[1].post = jobs[t].log[2].post
        /\ jobs[t].log[1].outcome = "stored"
        /\ jobs[t].log[2].outcome = "exists"

\* C16: whatever the interleaving of concurrent process_single_post calls,
\* no two rows of social_media_posts have the same (platform, post_id).
C16_UniquePostKey ==
    \A k1, k2 \in 1..Len(posts) :
        (posts[k1].platform = posts[k2].platform
            /\ posts[k1].post_id = posts[k2].post_id) => k1 = k2

\* C17: every stored post and every published event has a probability above
\* 0.2, and a post whose probability is 0.2 or less is neither committed nor
\* published.
C17_StoredAboveThreshold ==
    /\ \A k \in 1..Len(posts) : posts[k].hazard_probability > 2
    /\ \A e \in BagToSet(new_social_post) : e.hazard_probability > 2
    /\ \A t \in Jobs : \A i \in 1..Len(jobs[t].log) :
          SocialPost(jobs[t].log[i].post).hazard_probability <= 2
          => jobs[t].log[i].outcome \notin Committed

\* A post of probability exactly 0.2 was processed and dropped, and nothing
\* is stored for it.
C17_Witness ==
    \E t \in Jobs : \E i \in 1..Len(jobs[t].log) :
        /\ SocialPost(jobs[t].log[i].post).hazard_probability = 2
        /\ jobs[t].log[i].outcome = "below"
        /\ existing_post_query(jobs[t].log[i].post) = {}

\* C18: the publish step runs for a post that is committed; when it fails
\* the post stays stored, process_single_post raises nothing and the loop of
\* the batch goes on with the next post.
C18_PublishFailureIsolated ==
    [][\A t \in Jobs :
         /\ (\E ok \in BOOLEAN : process_single_post_publish(t, ok))
              => existing_post_query(Head(jobs[t].items)) # {}
         /\ process_single_post_publish(t, FALSE)
              => /\ posts' = posts
                 /\ ~jobs'[t].raised
                 /\ Len(jobs[t].items) > 1
                      => /\ jobs'[t].pc = "check"
                         /\ jobs'[t].items = Tail(jobs[t].items)]_vars

\* The publish of the first post of a batch failed, and the second post of
\* the batch was stored and published.
C18_Witness ==
    \E t \in Jobs :
        /\ Len(jobs[t].log) = 2
        /\ jobs[t].log[1].outcome = "unpublished"
        /\ jobs[t].log[2].outcome = "stored"
        /\ existing_post_query(jobs[t].log[1].post) # {}

\* C19: for a non-empty text the probability is min(1.0, 0.3 if a tag is
\* present + 0.2 if any pattern matches + min(0.1 per urgency keyword, 0.3)
\* + 0.2 if the sentiment is below -0.1), the pattern bonus counted once.
C19_AdditiveProbability ==
    \A t \in Jobs :
        (jobs[t].kind = "analyze" /\ jobs[t].pc = "done"
            /\ jobs[t].out[1].processed_text.words # <<>>)
        => LET r == jobs[t].out[1]
               w == r.processed_text.words
           IN r.hazard_probability =
                Min(10,
                    (IF r.hazard_keywords # {} THEN 3 ELSE 0)
                    + (IF \E ht \in HazardTypes : \E n \in 1..PatternsPerType :
                             hazard_patterns(ht, n, w)
                         THEN 2 ELSE 0)
                    + Min(Cardinality({k \in urgency_keywords : KeywordIn(k, w)}), 3)
                    + (IF r.sentiment_score < -10 THEN 2 ELSE 0))

\* The roles the verification endpoint is meant to admit.
Privileged == {"analyst", "official"}

\* C21: a report of severity high or critical that becomes verified, however
\* long after its creation, is selected by the scan of process_report_alerts
\* from then on, and the scan's call of generate_alert_from_report for a
\* selected report goes on to create an alert or returns an existing one.
C21_VerifiedHighReachesAlert ==
    [][/\ \A t \in Tasks, id \in DOMAIN reports, u \in CurrentUsers :
            (/\ verify_hazard_report(t, id, u, TRUE)
             /\ u.role \in Privileged
             /\ reports[id].severity \in HighSeverity)
            => ReportOf(reports'[id]) \in
                 recent_reports({ReportOf(reports'[k]) : k \in DOMAIN reports'})
       /\ \A t \in Tasks, k \in DOMAIN reports :
            process_report_alerts(t, ReportOf(reports[k]))
            => (tasks'[t].pc = "gen_create" \/ tasks'[t].res # None)]_vars

\* C22: is_verified never goes from true to false; it becomes true only by a
\* call of verify_hazard_report by an analyst or an official; a call by
\* another role or for an unknown report id is answered with an error and
\* leaves the table as it was.
C22_VerificationOneWay ==
    [][/\ \A k \in DOMAIN reports :
            /\ k \in DOMAIN reports'
            /\ reports[k].is_verified => reports'[k].is_verified
       /\ \A k \in DOMAIN reports' :
            (reports'[k].is_verified
                /\ (k \notin DOMAIN reports \/ ~reports[k].is_verified))
            => \E t \in Tasks, u \in CurrentUsers :
                 u.role \in Privileged /\ verify_hazard_report(t, k, u, TRUE)
       /\ \A t \in Tasks, id \in 1..MaxReports, u \in CurrentUsers, ok \in BOOLEAN :
            (/\ verify_hazard_report(t, id, u, ok)
             /\ (u.role \notin Privileged \/ id \notin DOMAIN reports))
            => (/\ reports' = reports
                /\ tasks'[t].raised
                /\ tasks'[t].res \in {403, 404})]_vars

\* A citizen's call to verify a report that an analyst or official verified
\* before has been rejected.
C22_Witness ==
    \E t \in Tasks, k \in DOMAIN reports :
        /\ reports[k].is_verified
        /\ tasks[t].kind = "verify" /\ tasks[t].rid = k /\ tasks[t].res = 403

\* C27: a call of verify_hazard_report that has verified a report has run
\* generate_hotspots_async before it returns.
C27_HotspotsAfterVerification ==
    \A t \in Tasks :
        (tasks[t].kind = "verify" /\ tasks[t].pc = "done" /\ tasks[t].res = 200)
        => tasks[t].hotspots

\* C23: every stored alert expires after it was created.
C23_ExpiryAfterCreation ==
    \A i \in AlertIds : alerts[i].expires_at > alerts[i].created_at

\* The severity the table of the feed mapping gives a string of the feed.
ExpectedSeverity(s) ==
    CASE s \in {<<"l", "o", "w">>, <<"L", "O", "W">>} -> "low"
      [] s \in {<<"m", "o", "d", "e", "r", "a", "t", "e">>,
                <<"M", "o", "d", "e", "r", "a", "t", "e">>} -> "medium"
      [] s \in {<<"h", "i", "g", "h">>, <<"H", "I", "G", "H">>} -> "high"
      [] s \in {<<"s", "e", "v", "e", "r", "e">>, <<"S", "e", "v", "e", "r", "e">>,
                <<"e", "x", "t", "r", "e", "m", "e">>,
                <<"E", "X", "T", "R", "E", "M", "E">>} -> "critical"
      [] OTHER -> "medium"

\* C24: the feed sync gives every item the severity of the table, whatever
\* the case of the letters, and medium for a string that is no key; every
\* alert the feed sync has stored has one of the four severities.
C24_SeverityMapping ==
    [][/\ \A t \in Tasks, feed \in FeedsOf(SeverityItems) :
            sync_with_incois(t, feed)
            => \A i \in 1..Len(feed) :
                 tasks'[t].items[i].severity = ExpectedSeverity(feed[i].severity)
       /\ \A i \in 1..Len(alerts') :
            alerts'[i].source = "incois" => alerts'[i].severity \in SeverityLevel]_vars

\* The feed sync has stored an alert of severity critical, and one of
\* severity low is the next item of a sync.
C24_Witness ==
    \E t \in Tasks, i \in AlertIds :
        /\ alerts[i].source = "incois" /\ alerts[i].severity = "critical"
        /\ tasks[t].pc = "store" /\ Head(tasks[t].items).severity = "low"

\* C26: at most one feed sync is in flight.
C26_SingleFlightSync ==
    Cardinality({t \in Tasks : tasks[t].kind = "sync" /\ tasks[t].pc # "done"}) <= 1

\* C25: after a run of the sweep that failed the loop sleeps 300 seconds,
\* after a run that succeeded 3600 seconds.
C25_BackoffAfterFailedSweep ==
    [][\A session \in BOOLEAN, ok \in BOOLEAN :
         periodic_alert_cleanup(session, ok)
         => cleanup_sleep' = IF session /\ ok THEN 3600 ELSE 300]_vars

\* The UserAlert rows of an alert.
RowsOf(aid) == {k \in 1..Len(user_alerts) : user_alerts[k].alert_id = aid}

\* C28: no (user, alert) pair has two UserAlert rows; a fanout starts for an
\* alert that has no rows yet; a report-triggered creation that finds an
\* alert to suppress it, and a feed item that finds its alert stored, add no
\* alert and no rows, notify nobody and start no fanout.
C28_OneRowPerUserAndAlert ==
    [][/\ \A k1, k2 \in 1..Len(user_alerts') :
            (/\ user_alerts'[k1].user_id = user_alerts'[k2].user_id
             /\ user_alerts'[k1].alert_id = user_alerts'[k2].alert_id) => k1 = k2
       /\ \A t \in Tasks :
            /\ (tasks'[t].pc \in {"notify", "notify_affected"} /\ tasks'[t] # tasks[t])
                 => (/\ RowsOf(tasks'[t].aid) = {}
                     /\ \A s \in Tasks \ {t} : tasks'[s].aid # tasks'[t].aid)
            /\ (/\ tasks[t].pc = "idle" /\ tasks'[t].kind = "gen"
                /\ RecentActive(tasks'[t].atype, "crowdsourced") # {})
                 => (/\ tasks'[t].pc = "done"
                     /\ alerts' = alerts /\ user_alerts' = user_alerts
                     /\ attempts' = attempts /\ dispatched' = dispatched)
            /\ (/\ store_alerts(t, TRUE)
                /\ \E i \in AlertIds :
                     /\ alerts[i].source = "incois"
                     /\ alerts[i].alert_type = Head(tasks[t].items).alert_type
                     /\ alerts[i].title = Head(tasks[t].items).title)
                 => (/\ tasks'[t].pc # "notify_affected"
                     /\ alerts' = alerts /\ user_alerts' = user_alerts
                     /\ attempts' = attempts /\ dispatched' = dispatched)]_vars

\* A user holds the row of one alert while a sync is at a feed item whose
\* alert is stored.
C28_Witness ==
    \E t \in Tasks, i \in AlertIds :
        /\ Len(user_alerts) > 0
        /\ tasks[t].pc = "store"
        /\ alerts[i].source = "incois"
        /\ alerts[i].alert_type = Head(tasks[t].items).alert_type
        /\ alerts[i].title = Head(tasks[t].items).title

\* C29: a UserAlert row belongs to a stored alert; when the notifications of
\* create_alert start, and for every user a channel has been tried for, the
\* user's row for the alert is stored; nothing is sent for an alert whose
\* fanout has not stored its rows yet; an event is published for a stored
\* alert only, and not while its fanout is under way.
C29_CommitBeforeNotifyBeforePublish ==
    /\ \A k \in 1..Len(user_alerts) : user_alerts[k].alert_id \in AlertIds
    /\ \A t \in Tasks :
         /\ tasks[t].pc \in {"notify", "send", "publish"} => tasks[t].aid \in AlertIds
         /\ tasks[t].pc = "notify"
              => \A x \in attempts : x[1] # tasks[t].aid
         /\ tasks[t].pc = "send"
              => \A u \in tasks[t].ulist :
                   \E k \in RowsOf(tasks[t].aid) : user_alerts[k].user_id = u
         /\ tasks[t].pc \in {"notify", "send", "publish"}
              => tasks[t].aid \notin published
    /\ \A x \in attempts :
         /\ x[1] \in AlertIds
         /\ x[2] # 0 => \E k \in RowsOf(x[1]) : user_alerts[k].user_id = x[2]
    /\ published \subseteq AlertIds

\* The event of an alert is published after two users were notified of it.
C29_Witness ==
    \E a \in published :
        \A u \in 1..MaxFanoutUsers :
            /\ <<a, u, "push">> \in attempts
            /\ \E k \in RowsOf(a) : user_alerts[k].user_id = u

\* C30: a text analyze_text finds no tag for matches no hazard pattern, has
\* a probability of at most 0.5 and is not classified as hazard related.
C30_NoTagNotHazardRelated ==
    \A t \in Jobs :
        (jobs[t].kind = "analyze" /\ jobs[t].pc = "done"
            /\ jobs[t].out[1].hazard_keywords = {})
        => LET r == jobs[t].out[1]
           IN /\ \A ht \in HazardTypes : \A n \in 1..PatternsPerType :
                    ~hazard_patterns(ht, n, r.processed_text.words)
              /\ r.hazard_probability <= 5
              /\ ~r.is_hazard_related

\* A text without a tag, with three urgency keywords and a negative
\* sentiment, has been analysed: its probability is 0.5.
C30_Witness ==
    \E t \in Jobs :
        /\ jobs[t].kind = "analyze" /\ jobs[t].pc = "done"
        /\ jobs[t].out[1].hazard_keywords = {}
        /\ jobs[t].out[1].sentiment_score < -10
        /\ jobs[t].out[1].hazard_probability = 5
====
